---- MODULE Spec2Model ----
(***************************************************************************)
(* Model of the bookstore API: the order lifecycle (create_order,          *)
(* update_order_status) and the handlers that write book rows (add_book,   *)
(* update_book, create_product, update_product).  Every handler is a       *)
(* sequence of single SQL statements, each on its own connection           *)
(* (app/utils/db.py); one action of the model is one statement together    *)
(* with the local computation that precedes it, so that requests           *)
(* interleave exactly where the database lets them.                        *)
(***************************************************************************)
EXTENDS Integers, Sequences, FiniteSets, TLC

(***************************************************************************)
(* Bounds of the model.                                                    *)
(***************************************************************************)
\* number of order rows ever inserted
MaxOrders == 2
\* number of book rows ever inserted
MaxBooks == 1
\* the clock runs over 0..MaxTime (seconds)
MaxTime == 1
\* number of review rows ever inserted
MaxReviews == 2
\* the base query of a paginated query has 0..MaxRows result rows
MaxRows == 25
\* the pages asked for are -1..MaxPage
MaxPage == 3
\* the limits of the recommendation requests are 1..MaxLimit
MaxLimit == 3
\* number of audit log rows ever inserted
MaxAudits == 2
\* number of logindata rows ever inserted
MaxAccounts == 2

(***************************************************************************)
(* Program constants.                                                      *)
(***************************************************************************)
\* book.status = 1 means "on sale"
OnSale == 1
\* the order number ends with the last 4 characters of the buyer id
SuffixLen == 4
\* LAST_INSERT_ID() on a connection that has inserted nothing
NoInsertId == 0
\* the greatest page size, and the page size that replaces one out of range
PageSizeLimit == 100
DefaultPageSize == 10
\* a review carries at most 3 images
MaxImages == 3
\* the text of a review is cut to 500 characters
ContentLimit == 500
\* the rating of a seller without reviews, in tenths of a star
DefaultRating == 50

(***************************************************************************)
(* Optional values: None, or Some(v).                                      *)
(***************************************************************************)
None == << >>
Some(v) == << v >>
\* Python truthiness of an Optional[int] and of an Optional[str]
TruthyInt(o) == o # None /\ o[1] # 0
TruthyStr(o) == o # None /\ o[1] # ""

(***************************************************************************)
(* Input domains.                                                          *)
(***************************************************************************)
\* 7 and 10007 share their last four digits
Buyers == {7, 10007}
Sellers == {1}
Strangers == {99}
Users == Buyers \cup Sellers \cup Strangers
Prices == {20, 35}
Quantities == {1, 2}
BookStatuses == {0, 1}
BookIds == 1 .. (MaxBooks + 1)
OrderIds == 1 .. MaxOrders
TrackingNos == {None, Some(""), Some("SF1")}

Statuses == {"pending_pay", "pending_ship", "pending_receive", "completed", "cancelled"}

\* the fulfillment part of a CreateOrderRequest
PickupOk == [fulfillment_type |-> "self_pickup", pickup_location_id |-> Some(5),
             receiver_name |-> None, receiver_phone |-> None, receiver_address |-> None]
PickupMissing == [fulfillment_type |-> "self_pickup", pickup_location_id |-> None,
                  receiver_name |-> None, receiver_phone |-> None, receiver_address |-> None]
LogisticsMissing == [fulfillment_type |-> "logistics", pickup_location_id |-> None,
                     receiver_name |-> Some("Li"), receiver_phone |-> Some("138"),
                     receiver_address |-> Some("")]
Fulfillments == {PickupOk, PickupMissing, LogisticsMissing}

CreateRequest(pid, buyer, q, f) ==
    [product_id |-> pid, buyer_id |-> buyer, quantity |-> q,
     fulfillment_type |-> f.fulfillment_type,
     pickup_location_id |-> f.pickup_location_id,
     receiver_name |-> f.receiver_name,
     receiver_phone |-> f.receiver_phone,
     receiver_address |-> f.receiver_address]

\* the buyer of the orders of the model, the seller, and somebody else
Operators == {7} \cup Sellers \cup Strangers

\* the requests for the orders with the ids in ids
UpdateRequests(ids) ==
    [order_id : ids, status : Statuses, operator_id : Operators,
     logistics_no : TrackingNos]

(***************************************************************************)
(* State.                                                                  *)
(***************************************************************************)
VARIABLES
    book,        \* table book: book_id -> row, book_id = 1..Len(book)
    orders,      \* table orders: the set of rows
    nextOrderId, \* AUTO_INCREMENT counter of orders.order_id
    clock,       \* datetime.now(timezone.utc), in seconds
    co,          \* the create_order requests in progress
    uo,          \* the update_order_status requests in progress
    reviews,     \* table reviews: id -> row, id = 1..Len(reviews)
    users,       \* table users: user_id -> row
    cr,          \* the create_review requests in progress
    pg,          \* the call of execute_query_paginated in progress
    rc,          \* the get_recommendations_for_user request in progress
    posts,       \* table posts: post_id -> row
    audit_logs,  \* table audit_logs: id -> row, id = 1..Len(audit_logs)
    au,          \* the audit_target requests in progress
    logindata,   \* table logindata: ID -> row, ID = 1..Len(logindata)
    rg           \* the register requests in progress

\* the tables and requests of the order and book handlers
storeVars == <<book, orders, nextOrderId, clock, co, uo>>

\* the tables and requests of the review handlers
reviewVars == <<reviews, users, cr>>

\* the call of execute_query_paginated in progress
pageVars == <<pg>>

\* the get_recommendations_for_user request in progress
recVars == <<rc>>

\* the tables and requests of the audit handler
auditVars == <<posts, audit_logs, au>>

\* the accounts and the register requests in progress
accountVars == <<logindata, rg>>

\* what the review handlers and execute_query_paginated leave alone
adminVars == <<recVars, auditVars, accountVars>>

\* what the order and book handlers leave alone
others == <<reviewVars, pageVars, adminVars>>

vars == <<book, orders, nextOrderId, clock, co, uo, others>>

\* get_recommendations_for_user between two requests
IdleRec ==
    [pc |-> "idle", user_id |-> 0, limit |-> 0, school_id |-> None,
     school_recs_limit |-> 0, final |-> << >>, remaining_slots |-> 0,
     preferred_categories |-> {}, similar_user_ids |-> {},
     recommendations |-> << >>, result |-> "none"]

\* no account and no register request
InitAccounts ==
    /\ logindata = << >>
    /\ rg = << >>

\* no recommendation or audit request, no post and no audit log
InitAdmin ==
    /\ rc = IdleRec
    /\ posts = << >>
    /\ audit_logs = << >>
    /\ au = << >>
    /\ InitAccounts

\* a create_order handler between two requests
IdleCreate ==
    [pc |-> "idle", req |-> CreateRequest(0, 0, 0, PickupMissing), price |-> 0,
     seller |-> 0, total |-> 0, now |-> 0, order_no |-> 0, row_id |-> 0,
     result |-> "none", order_id |-> 0]

\* an update_order_status handler between two requests
IdleUpdate ==
    [pc |-> "idle", order_id |-> 0, status |-> "none", logistics_no |-> None,
     now |-> 0, cur |-> "none", result |-> "none"]

\* execute_query_paginated between two calls
IdlePage ==
    [pc |-> "idle", in_page |-> 0, in_page_size |-> 0, page |-> 0, page_size |-> 0,
     offset |-> 0, data |-> << >>, total |-> 0, total_pages |-> 0]

DoneCreate(result, id) == [IdleCreate EXCEPT !.pc = "done", !.result = result, !.order_id = id]
DoneUpdate(result) == [IdleUpdate EXCEPT !.pc = "done", !.result = result]

(***************************************************************************)
(* create_order                                                            *)
(***************************************************************************)
\* str(buyer_id)[-4:].zfill(4), for a buyer id >= 0, read as a number
BuyerSuffix(buyer_id) == buyer_id % (10 ^ SuffixLen)

\* now.strftime('%Y%m%d%H%M%S') followed by the four characters of the suffix
OrderNo(now, buyer_id) == now * (10 ^ SuffixLen) + BuyerSuffix(buyer_id)

\* TotalAmount without the quantity
TotalAmountOfOne(price, quantity) == price

\* total_amount = product["price"] * req.quantity
TotalAmount(price, quantity) == price * quantity

\* the fulfillment check of step 2; TRUE when the request is rejected
FulfillmentMissing(req) ==
    \/ req.fulfillment_type = "self_pickup" /\ ~TruthyInt(req.pickup_location_id)
    \/ /\ req.fulfillment_type = "logistics"
       /\ ~(TruthyStr(req.receiver_name) /\ TruthyStr(req.receiver_phone)
            /\ TruthyStr(req.receiver_address))

\* the outcome of steps 1 and 2 on the row read: "ok" or the error raised
CreateCheck(req) ==
    IF req.product_id \notin DOMAIN book THEN "NotFound"
    ELSE IF book[req.product_id].status # OnSale THEN "InvalidState"
    ELSE IF book[req.product_id].stock < req.quantity THEN "InsufficientStock"
    ELSE IF FulfillmentMissing(req) THEN "InvalidRequest"
    ELSE "ok"

\* rows the requests in progress may still insert
PendingInserts == Cardinality({p \in DOMAIN co : co[p].pc = "insert"})

\* SELECT of the product, the checks of steps 1 and 2, total_amount
CreateOrderRead(p, req) ==
    /\ co[p].pc \in {"idle", "done"}
    /\ nextOrderId + PendingInserts <= MaxOrders
    /\ co' = [co EXCEPT ![p] =
                IF CreateCheck(req) # "ok" THEN DoneCreate(CreateCheck(req), 0)
                ELSE [IdleCreate EXCEPT
                        !.pc = "insert", !.req = req,
                        !.price = book[req.product_id].price,
                        !.seller = book[req.product_id].seller_ID,
                        !.total = TotalAmount(book[req.product_id].price, req.quantity)]]
    /\ UNCHANGED <<book, orders, nextOrderId, clock, uo, others>>

\* the row of step 4
NewOrder(id, c, now) ==
    [order_id |-> id, order_no |-> OrderNo(now, c.req.buyer_id),
     buyer_id |-> c.req.buyer_id, seller_id |-> c.seller,
     product_id |-> c.req.product_id, quantity |-> c.req.quantity,
     total_amount |-> c.total,
     fulfillment_type |-> c.req.fulfillment_type,
     pickup_location_id |-> c.req.pickup_location_id,
     receiver_name |-> c.req.receiver_name,
     receiver_phone |-> c.req.receiver_phone,
     receiver_address |-> c.req.receiver_address,
     status |-> "pending_pay", create_time |-> now, update_time |-> now,
     logistics_no |-> None]

\* now, order_no and the INSERT INTO orders
CreateOrderInsert(p) ==
    /\ co[p].pc = "insert"
    /\ orders' = orders \cup {NewOrder(nextOrderId, co[p], clock)}
    /\ nextOrderId' = nextOrderId + 1
    /\ co' = [co EXCEPT ![p] = [@ EXCEPT !.pc = "decrement", !.now = clock,
                                         !.order_no = OrderNo(clock, co[p].req.buyer_id),
                                         !.row_id = nextOrderId]]
    /\ UNCHANGED <<book, clock, uo, others>>

\* StockGuard asking only for some stock
StockGuardAny(b, quantity) == b.stock > 0

\* the WHERE clause of the conditional UPDATE of step 5
StockGuard(b, quantity) == b.stock >= quantity

\* UPDATE book SET stock = stock - q WHERE book_id = .. AND stock >= q
CreateOrderDecrement(p) ==
    /\ co[p].pc = "decrement"
    /\ LET pid == co[p].req.product_id
           q   == co[p].req.quantity
       IN IF pid \in DOMAIN book /\ StockGuard(book[pid], q)
          THEN /\ book' = [book EXCEPT ![pid].stock = @ - q]
               /\ co' = [co EXCEPT ![p].pc = "return"]
          ELSE /\ book' = book
               /\ co' = [co EXCEPT ![p].pc = "delete"]
    /\ UNCHANGED <<orders, nextOrderId, clock, uo, others>>

\* the rows DELETE FROM orders WHERE order_no = .. leaves
DeleteByOrderNo(rows, order_no) == {o \in rows : o.order_no # order_no}

\* the compensating DELETE, then the 400 response
CreateOrderDelete(p) ==
    /\ co[p].pc = "delete"
    /\ orders' = DeleteByOrderNo(orders, co[p].order_no)
    /\ co' = [co EXCEPT ![p] = [DoneCreate("InsufficientStock", 0) EXCEPT
                                   !.row_id = co[p].row_id]]
    /\ UNCHANGED <<book, nextOrderId, clock, uo, others>>

\* SELECT LAST_INSERT_ID() on a new connection, then the 201 response
CreateOrderReturn(p) ==
    /\ co[p].pc = "return"
    /\ co' = [co EXCEPT ![p] = [DoneCreate("Created", NoInsertId) EXCEPT
                                   !.row_id = co[p].row_id, !.total = co[p].total]]
    /\ UNCHANGED <<book, orders, nextOrderId, clock, uo, others>>

(***************************************************************************)
(* update_order_status                                                     *)
(***************************************************************************)
\* valid_transitions with a cancellation of completed orders
ValidTransitionsCancelAny(s) ==
    CASE s = "pending_pay" -> {"cancelled", "pending_ship"}
      [] s = "pending_ship" -> {"cancelled", "pending_receive"}
      [] s = "pending_receive" -> {"completed", "cancelled"}
      [] s = "completed" -> {"cancelled"}
      [] s = "cancelled" -> {}

\* valid_transitions
ValidTransitions(s) ==
    CASE s = "pending_pay" -> {"cancelled", "pending_ship"}
      [] s = "pending_ship" -> {"cancelled", "pending_receive"}
      [] s = "pending_receive" -> {"completed", "cancelled"}
      [] s = "completed" -> {}
      [] s = "cancelled" -> {}

\* the rows SELECT .. WHERE o.order_id = .. returns
OrderRows(id) == {o \in orders : o.order_id = id}

\* step 2: the operator is the buyer or the seller
IsParty(o, operator_id) == operator_id = o.buyer_id \/ operator_id = o.seller_id

\* UpdateCheck with step 3 before step 2
UpdateCheckTransitionFirst(req) ==
    IF OrderRows(req.order_id) = {} THEN "NotFound"
    ELSE LET o == CHOOSE r \in OrderRows(req.order_id) : TRUE
         IN IF req.status \notin ValidTransitions(o.status) THEN "InvalidTransition"
            ELSE IF ~IsParty(o, req.operator_id) THEN "Forbidden"
            ELSE IF req.status = "pending_receive" /\ ~TruthyStr(req.logistics_no)
                 THEN "InvalidRequest"
            ELSE "ok"

\* the outcome of steps 1 to 4 on the row read: "ok" or the error raised
UpdateCheck(req) ==
    IF OrderRows(req.order_id) = {} THEN "NotFound"
    ELSE LET o == CHOOSE r \in OrderRows(req.order_id) : TRUE
         IN IF ~IsParty(o, req.operator_id) THEN "Forbidden"
            ELSE IF req.status \notin ValidTransitions(o.status) THEN "InvalidTransition"
            ELSE IF req.status = "pending_receive" /\ ~TruthyStr(req.logistics_no)
                 THEN "InvalidRequest"
            ELSE "ok"

\* SELECT of the order and the checks of steps 1 to 4
UpdateOrderStatusRead(u, req) ==
    /\ uo[u].pc \in {"idle", "done"}
    /\ LET outcome == UpdateCheck(req)
       IN uo' = [uo EXCEPT ![u] =
                   IF outcome # "ok" THEN DoneUpdate(outcome)
                   ELSE [IdleUpdate EXCEPT
                           !.pc = "write", !.order_id = req.order_id, !.status = req.status,
                           !.logistics_no = req.logistics_no, !.now = clock,
                           !.cur = (CHOOSE r \in OrderRows(req.order_id) : TRUE).status]]
    /\ UNCHANGED <<book, orders, nextOrderId, clock, co, others>>

RECURSIVE SumQuantities(_)
\* the sum of the quantities of a set of order rows
SumQuantities(rows) ==
    IF rows = {} THEN 0
    ELSE LET o == CHOOSE x \in rows : TRUE
         IN  o.quantity + SumQuantities(rows \ {o})

\* UpdatedOrder writing logistics_no for every status
UpdatedOrderWithTracking(o, u) ==
    [o EXCEPT !.status = u.status, !.update_time = u.now, !.logistics_no = u.logistics_no]

\* the row after UPDATE orders SET status, update_time [, logistics_no]
UpdatedOrder(o, u) ==
    IF u.status = "pending_receive"
    THEN [o EXCEPT !.status = u.status, !.update_time = u.now,
                   !.logistics_no = u.logistics_no]
    ELSE [o EXCEPT !.status = u.status, !.update_time = u.now]

\* UpdateOrderStatusWrite giving the units of a cancelled order back to the stock
UpdateOrderStatusWriteRestock(u) ==
    /\ uo[u].pc = "write"
    /\ orders' = {IF o.order_id = uo[u].order_id THEN UpdatedOrder(o, uo[u]) ELSE o :
                  o \in orders}
    /\ uo' = [uo EXCEPT ![u] = [DoneUpdate("OK") EXCEPT
                                   !.order_id = uo[u].order_id, !.status = uo[u].status,
                                   !.cur = uo[u].cur]]
    /\ book' = [b \in DOMAIN book |->
                 IF uo[u].status = "cancelled"
                 THEN [book[b] EXCEPT !.stock = @ + SumQuantities(
                          {o \in orders : o.order_id = uo[u].order_id /\ o.product_id = b})]
                 ELSE book[b]]
    /\ UNCHANGED <<nextOrderId, clock, co, others>>

\* UPDATE orders .. WHERE order_id = .., then the 200 response
UpdateOrderStatusWrite(u) ==
    /\ uo[u].pc = "write"
    /\ orders' = {IF o.order_id = uo[u].order_id THEN UpdatedOrder(o, uo[u]) ELSE o :
                  o \in orders}
    /\ uo' = [uo EXCEPT ![u] = [DoneUpdate("OK") EXCEPT
                                   !.order_id = uo[u].order_id, !.status = uo[u].status,
                                   !.cur = uo[u].cur]]
    /\ UNCHANGED <<book, nextOrderId, clock, co, others>>

(***************************************************************************)
(* The handlers that write book rows.                                      *)
(***************************************************************************)
BookRow(seller, price, stock, status) ==
    [seller_ID |-> seller, price |-> price, stock |-> stock, status |-> status]

\* books.add_book: one INSERT, no validation of the values
add_book(seller, price, status, stock) ==
    /\ Len(book) < MaxBooks
    /\ book' = Append(book, BookRow(seller, price, stock, status))
    /\ UNCHANGED <<orders, nextOrderId, clock, co, uo, others>>

\* books.update_book: a field is written when its value is truthy
update_book(book_id, price, stock, status) ==
    /\ book_id \in DOMAIN book
    /\ book' = [book EXCEPT ![book_id] =
                  [@ EXCEPT !.price = IF TruthyInt(price) THEN price[1] ELSE @,
                            !.stock = IF TruthyInt(stock) THEN stock[1] ELSE @,
                            !.status = IF TruthyInt(status) THEN status[1] ELSE @]]
    /\ UNCHANGED <<orders, nextOrderId, clock, co, uo, others>>

\* products.create_product: price > 0 and stock >= 0 are validated, the seller exists
create_product(seller_id, price, stock) ==
    /\ Len(book) < MaxBooks
    /\ IF price > 0 /\ stock >= 0 /\ seller_id \in Users
       THEN book' = Append(book, BookRow(seller_id, price, stock, OnSale))
       ELSE book' = book
    /\ UNCHANGED <<orders, nextOrderId, clock, co, uo, others>>

\* Body(None, gt=0) and Body(None, ge=0)
ProductFieldsValid(price, stock) ==
    /\ price = None \/ price[1] > 0
    /\ stock = None \/ stock[1] >= 0

\* products.update_product: the seller check, then a field is written when it is given
update_product(book_id, seller_id, price, stock, status) ==
    /\ IF /\ ProductFieldsValid(price, stock)
          /\ book_id \in DOMAIN book
          /\ book[book_id].seller_ID = seller_id
          /\ ~(price = None /\ stock = None /\ status = None)
       THEN book' = [book EXCEPT ![book_id] =
                       [@ EXCEPT !.price = IF price # None THEN price[1] ELSE @,
                                 !.stock = IF stock # None THEN stock[1] ELSE @,
                                 !.status = IF status # None THEN status[1] ELSE @]]
       ELSE book' = book
    /\ UNCHANGED <<orders, nextOrderId, clock, co, uo, others>>

\* a second passes
Tick ==
    /\ clock < MaxTime
    /\ clock' = clock + 1
    /\ UNCHANGED <<book, orders, nextOrderId, co, uo, others>>

(***************************************************************************)
(* create_review                                                           *)
(***************************************************************************)
\* a CreateReviewRequest; images is the number of urls in img_urls
ReviewRequest(order_id, reviewer_id, rating, content, images) ==
    [order_id |-> order_id, reviewer_id |-> reviewer_id, rating |-> rating,
     content |-> content, images |-> images]

\* a create_review handler between two requests
IdleReview ==
    [pc |-> "idle", req |-> ReviewRequest(0, 0, 0, None, 0), seller_id |-> 0,
     product_id |-> 0, now |-> 0, avg_rating |-> 0, review_count |-> 0,
     result |-> "none"]

DoneReview(result) == [IdleReview EXCEPT !.pc = "done", !.result = result]

\* a row of the users table: the rating is kept in tenths of a star
UserRow(school_id, role, avg_rating, review_count) ==
    [school_id |-> school_id, role |-> role, avg_rating |-> avg_rating,
     review_count |-> review_count]

\* the rows SELECT .. FROM orders WHERE order_id = .. AND buyer_id = .. returns
OrdersOfBuyer(order_id, buyer_id) ==
    {o \in orders : o.order_id = order_id /\ o.buyer_id = buyer_id}

\* ReviewOrderCheck without the check of the status
ReviewOrderCheckAnyStatus(req) ==
    IF OrdersOfBuyer(req.order_id, req.reviewer_id) = {} THEN "NotFound" ELSE "ok"

\* the outcome of step 1 on the row read: "ok" or the error raised
ReviewOrderCheck(req) ==
    IF OrdersOfBuyer(req.order_id, req.reviewer_id) = {} THEN "NotFound"
    ELSE IF (CHOOSE o \in OrdersOfBuyer(req.order_id, req.reviewer_id) : TRUE).status
            # "completed"
         THEN "InvalidState"
    ELSE "ok"

\* rows the requests in progress may still insert
PendingReviews == Cardinality({r \in DOMAIN cr : cr[r].pc \in {"exists", "insert"}})

\* step 1: SELECT of the order and its checks
CreateReviewRead(r, req) ==
    /\ cr[r].pc \in {"idle", "done"}
    /\ Len(reviews) + PendingReviews < MaxReviews
    /\ LET outcome == ReviewOrderCheck(req)
       IN cr' = [cr EXCEPT ![r] =
                   IF outcome # "ok" THEN DoneReview(outcome)
                   ELSE LET o == CHOOSE x \in OrdersOfBuyer(req.order_id, req.reviewer_id) : TRUE
                        IN [IdleReview EXCEPT !.pc = "exists", !.req = req,
                                              !.seller_id = o.seller_id,
                                              !.product_id = o.product_id]]
    /\ UNCHANGED <<storeVars, reviews, users, pageVars, adminVars>>

\* the ids SELECT id FROM reviews WHERE order_id = .. returns
ReviewsOfOrder(order_id) == {i \in DOMAIN reviews : reviews[i].order_id = order_id}

\* ReviewExistsCheck with the image count checked first
ReviewExistsCheckImagesFirst(c) ==
    IF c.req.images > MaxImages THEN "InvalidRequest"
    ELSE IF ReviewsOfOrder(c.req.order_id) # {} THEN "DuplicateReview"
    ELSE "ok"

\* the outcome of steps 2 and 3: the duplicate check, then the image count
ReviewExistsCheck(c) ==
    IF ReviewsOfOrder(c.req.order_id) # {} THEN "DuplicateReview"
    ELSE IF c.req.images > MaxImages THEN "InvalidRequest"
    ELSE "ok"

\* step 2: SELECT of an existing review, and the image count of step 3
CreateReviewExists(r) ==
    /\ cr[r].pc = "exists"
    /\ LET outcome == ReviewExistsCheck(cr[r])
       IN cr' = [cr EXCEPT ![r] =
                   IF outcome # "ok" THEN DoneReview(outcome)
                   ELSE [@ EXCEPT !.pc = "insert"]]
    /\ UNCHANGED <<storeVars, reviews, users, pageVars, adminVars>>

\* req.content[:500] if req.content else None, the content given by its length
StoredContent(content) ==
    IF TruthyInt(content)
    THEN Some(IF content[1] > ContentLimit THEN ContentLimit ELSE content[1])
    ELSE None

\* insert_params of step 4
NewReview(c, now) ==
    [order_id |-> c.req.order_id, reviewer_id |-> c.req.reviewer_id,
     seller_id |-> c.seller_id, product_id |-> c.product_id,
     rating |-> c.req.rating, content |-> StoredContent(c.req.content),
     images |-> c.req.images,
     create_time |-> now, update_time |-> now]

\* step 4: INSERT INTO reviews
CreateReviewInsert(r) ==
    /\ cr[r].pc = "insert"
    /\ reviews' = Append(reviews, NewReview(cr[r], clock))
    /\ cr' = [cr EXCEPT ![r] = [@ EXCEPT !.pc = "aggregate", !.now = clock]]
    /\ UNCHANGED <<storeVars, users, pageVars, adminVars>>

\* the ids of the reviews of a seller
ReviewsOfSeller(seller_id) == {i \in DOMAIN reviews : reviews[i].seller_id = seller_id}

RECURSIVE SumRatings(_)
\* the sum of the ratings of the reviews with the ids in ids
SumRatings(ids) ==
    IF ids = {} THEN 0
    ELSE LET i == CHOOSE x \in ids : TRUE
         IN reviews[i].rating + SumRatings(ids \ {i})

\* AVG(rating) of count rows, a DECIMAL with 4 decimals, in ten-thousandths
Avg4(sum, count) == (2 * 10000 * sum + count) \div (2 * count)

\* RoundTenths rounding down
RoundTenthsDown(x4) == x4 \div 1000

\* round(avg, 1) of a Decimal: to the nearest tenth, a tie to the even tenth
RoundTenths(x4) ==
    LET q == x4 \div 1000
        m == x4 % 1000
    IN IF m > 500 \/ (m = 500 /\ q % 2 = 1) THEN q + 1 ELSE q

\* avg_rating of step 5, in tenths: 5.0 when AVG(rating) is NULL
AvgRating(ids) ==
    IF ids = {} THEN DefaultRating
    ELSE RoundTenths(Avg4(SumRatings(ids), Cardinality(ids)))

\* step 5, the SELECT AVG(rating), COUNT(*) of the seller's reviews
CreateReviewAggregate(r) ==
    /\ cr[r].pc = "aggregate"
    /\ cr' = [cr EXCEPT ![r] =
                [@ EXCEPT !.pc = "profile",
                          !.avg_rating = AvgRating(ReviewsOfSeller(cr[r].seller_id)),
                          !.review_count = Cardinality(ReviewsOfSeller(cr[r].seller_id))]]
    /\ UNCHANGED <<storeVars, reviews, users, pageVars, adminVars>>

\* step 5, the UPDATE users of the seller, then the 201 response
CreateReviewProfile(r) ==
    /\ cr[r].pc = "profile"
    /\ users' = [u \in DOMAIN users |->
                   IF u = cr[r].seller_id
                   THEN [users[u] EXCEPT !.avg_rating = cr[r].avg_rating,
                                         !.review_count = cr[r].review_count]
                   ELSE users[u]]
    /\ cr' = [cr EXCEPT ![r] = [DoneReview("Created") EXCEPT
                                   !.avg_rating = cr[r].avg_rating]]
    /\ UNCHANGED <<storeVars, reviews, pageVars, adminVars>>

(***************************************************************************)
(* execute_query_paginated, called by get_books with the query             *)
(* SELECT * FROM book WHERE 1=1                                            *)
(***************************************************************************)
\* the result of the base query: the ids of the rows of book
BaseResult == [i \in 1 .. Len(book) |-> i]

\* page < 1 is replaced by 1
EffectivePage(page) == IF page < 1 THEN 1 ELSE page

\* EffectivePageSize replacing a size by the nearest bound
EffectivePageSizeNearest(page_size) ==
    IF page_size < 1 THEN 1
    ELSE IF page_size > PageSizeLimit THEN PageSizeLimit
    ELSE page_size

\* page_size < 1 or page_size > 100 is replaced by 10
EffectivePageSize(page_size) ==
    IF page_size < 1 \/ page_size > PageSizeLimit THEN DefaultPageSize ELSE page_size

\* the rows base LIMIT count OFFSET offset returns
LimitOffset(base, count, offset) ==
    IF offset >= Len(base) THEN << >>
    ELSE SubSeq(base, offset + 1, IF offset + count > Len(base) THEN Len(base)
                                  ELSE offset + count)

\* TotalPages rounding down
TotalPagesFloor(total, page_size) == total \div page_size

\* (total + page_size - 1) // page_size
TotalPages(total, page_size) == (total + page_size - 1) \div page_size

\* the replacement of the arguments, offset, and the query of the page
PaginateData(page, page_size) ==
    /\ pg.pc \in {"idle", "done"}
    /\ LET p == EffectivePage(page)
           n == EffectivePageSize(page_size)
       IN pg' = [IdlePage EXCEPT !.pc = "count", !.in_page = page,
                                 !.in_page_size = page_size, !.page = p, !.page_size = n,
                                 !.offset = (p - 1) * n,
                                 !.data = LimitOffset(BaseResult, n, (p - 1) * n)]
    /\ UNCHANGED <<storeVars, reviewVars, adminVars>>

\* the query SELECT COUNT(*) FROM (base), and the returned dict
PaginateCount ==
    /\ pg.pc = "count"
    /\ pg' = [pg EXCEPT !.pc = "done", !.total = Len(BaseResult),
                        !.total_pages = TotalPages(Len(BaseResult), pg.page_size)]
    /\ UNCHANGED <<storeVars, reviewVars, adminVars>>

(***************************************************************************)
(* get_recommendations_for_user and the queries of its four stages.  In    *)
(* these queries the status of a book is a string, 'online' for a book on  *)
(* sale.                                                                   *)
(***************************************************************************)
\* a row of book as the recommendation queries read it
CatalogRow(seller, status, stock, view, category_id) ==
    [seller_ID |-> seller, price |-> 20, stock |-> stock, status |-> status,
     view |-> view, category_id |-> category_id]

\* the elements of a sequence
Range(seq) == {seq[i] : i \in DOMAIN seq}

\* the sequences that list every element of S once
Listings(S) ==
    {seq \in [1 .. Cardinality(S) -> S] : \A i, j \in DOMAIN seq : seq[i] = seq[j] => i = j}

\* the results of a query with the rows S and ORDER BY: Before(a, b) when a
\* must come before b; rows that the order does not separate come in any order
OrderBy(S, Before(_, _)) ==
    {seq \in Listings(S) : \A i, j \in DOMAIN seq : i < j => ~Before(seq[j], seq[i])}

\* LIMIT count
Limit(seq, count) == SubSeq(seq, 1, IF count < Len(seq) THEN count ELSE Len(seq))

\* b.status = 'online'
Online(b) == book[b].status = "online"

\* COUNT of the completed orders of a book
SalesCount(b) == Cardinality({o \in orders : o.product_id = b /\ o.status = "completed"})

\* ORDER BY b.view DESC
ByView(a, b) == book[a].view > book[b].view

\* BySalesThenView with the two keys exchanged
ByViewThenSales(a, b) ==
    \/ book[a].view > book[b].view
    \/ book[a].view = book[b].view /\ SalesCount(a) > SalesCount(b)

\* ORDER BY sales_count DESC, b.view DESC
BySalesThenView(a, b) ==
    \/ SalesCount(a) > SalesCount(b)
    \/ SalesCount(a) = SalesCount(b) /\ book[a].view > book[b].view

\* no ORDER BY
Unordered(a, b) == FALSE

\* get_school_popular_products: the rows of the query before LIMIT
SchoolPopular(school_id) ==
    {b \in DOMAIN book :
        /\ book[b].seller_ID \in DOMAIN users
        /\ users[book[b].seller_ID].school_id = Some(school_id)
        /\ Online(b)}

\* the start of the trailing window of 180 days, in seconds
SixMonthsAgo == clock - 180 * 86400

\* the categories of the books of the user's completed orders in the window
PurchasedCategories(user_id) ==
    {book[o.product_id].category_id :
        o \in {x \in orders : /\ x.buyer_id = user_id
                              /\ x.create_time > SixMonthsAgo
                              /\ x.status = "completed"
                              /\ x.product_id \in DOMAIN book}}

\* the categories of the books of the user's reviews in the window
ReviewedCategories(user_id) ==
    {book[reviews[i].product_id].category_id :
        i \in {x \in DOMAIN reviews : /\ reviews[x].reviewer_id = user_id
                                      /\ reviews[x].create_time > SixMonthsAgo
                                      /\ reviews[x].product_id \in DOMAIN book}}

\* get_popular_products_in_categories: the rows of the query before LIMIT
PopularInCategories(category_ids, exclude_seller_id) ==
    {b \in DOMAIN book :
        /\ Online(b)
        /\ category_ids # {} => book[b].category_id \in category_ids
        /\ exclude_seller_id # 0 => book[b].seller_ID # exclude_seller_id}

\* the products of the completed orders of a buyer
Completed(buyer_id) ==
    {o.product_id : o \in {x \in orders : x.buyer_id = buyer_id /\ x.status = "completed"}}

\* the buyers who completed an order for a product the user completed one for
SimilarUsers(user_id) ==
    {o.buyer_id : o \in {x \in orders : /\ x.buyer_id # user_id
                                        /\ x.status = "completed"
                                        /\ x.product_id \in Completed(user_id)}}

\* get_collaborative_filtering_recommendations: the rows of the second query
\* before LIMIT
Collaborative(user_id, similar) ==
    {b \in DOMAIN book :
        /\ \E u \in similar : b \in Completed(u)
        /\ b \notin Completed(user_id)}

\* get_global_trending_products: the rows of the query before LIMIT
Trending == {b \in DOMAIN book : Online(b)}

RECURSIVE Merge(_, _, _, _)
\* the loop over the rows of a stage: a row is appended when its id is new;
\* with counted, the loop ends when no slot remains
Merge(final, recs, slots, counted) ==
    IF recs = << >> THEN final
    ELSE IF Head(recs) \in Range(final) THEN Merge(final, Tail(recs), slots, counted)
    ELSE IF counted /\ slots - 1 <= 0 THEN Append(final, Head(recs))
    ELSE Merge(Append(final, Head(recs)), Tail(recs), slots - 1, counted)

\* the response of get_recommendations_for_user to the request of user_id
DoneRec(user_id, limit, result) ==
    [IdleRec EXCEPT !.pc = "done", !.user_id = user_id, !.limit = limit, !.result = result]

\* int(limit * 0.4)
SchoolShare(limit) == (4 * limit) \div 10

\* the statement that follows the school stage
AfterSchool(final, limit) == IF limit - Len(final) > 0 THEN "purchased" ELSE "enrich"

\* the statement that follows a stage that leaves remaining slots
AfterStage(remaining, next) == IF remaining > 0 THEN next ELSE "enrich"

\* step 1: the user is looked up; 404 when there is no such user
RecommendUser(user_id, limit) ==
    /\ rc.pc = "idle"
    /\ rc' = IF user_id \in DOMAIN users
               THEN [IdleRec EXCEPT !.pc = "school", !.user_id = user_id, !.limit = limit]
               ELSE DoneRec(user_id, limit, "NotFound")
    /\ UNCHANGED <<storeVars, reviewVars, pageVars, auditVars, accountVars>>

\* step 2: get_user_school_id and the size of the school stage
RecommendSchool ==
    /\ rc.pc = "school"
    /\ LET school_id == IF rc.user_id \in DOMAIN users /\ TruthyInt(users[rc.user_id].school_id)
                          THEN users[rc.user_id].school_id
                          ELSE None
           share == SchoolShare(rc.limit)
           school_recs_limit == IF share < rc.limit THEN share ELSE rc.limit
       IN  rc' = [rc EXCEPT
                    !.school_id = school_id,
                    !.school_recs_limit = school_recs_limit,
                    !.remaining_slots = rc.limit,
                    !.pc = IF school_id # None /\ school_recs_limit > 0
                             THEN "school_popular"
                             ELSE AfterSchool(rc.final, rc.limit)]
    /\ UNCHANGED <<storeVars, reviewVars, pageVars, auditVars, accountVars>>

\* the list after the loop of the school stage
MergeUncounted(final, recs, slots) == Merge(final, recs, slots, FALSE)

\* MergeNew without the test that the id is new
MergeRepeated(final, recs, slots) == final \o recs

\* the list after the loop of a stage that counts the remaining slots
MergeNew(final, recs, slots) == Merge(final, recs, slots, TRUE)

\* step 2: get_school_popular_products and the loop over its rows
RecommendSchoolPopular ==
    /\ rc.pc = "school_popular"
    /\ \E recs \in OrderBy(SchoolPopular(rc.school_id[1]), ByView) :
         LET final == MergeUncounted(rc.final, Limit(recs, rc.school_recs_limit), rc.limit)
         IN  rc' = [rc EXCEPT
                      !.final = final,
                      !.remaining_slots = rc.limit - Len(final),
                      !.pc = AfterSchool(final, rc.limit)]
    /\ UNCHANGED <<storeVars, reviewVars, pageVars, auditVars, accountVars>>

\* step 3: the first query of get_user_preferred_categories
RecommendPurchased ==
    /\ rc.pc = "purchased"
    /\ rc' = [rc EXCEPT
                !.remaining_slots = rc.limit - Len(rc.final),
                !.preferred_categories = PurchasedCategories(rc.user_id),
                !.pc = "reviewed"]
    /\ UNCHANGED <<storeVars, reviewVars, pageVars, auditVars, accountVars>>

\* step 3: the second query of get_user_preferred_categories
RecommendReviewed ==
    /\ rc.pc = "reviewed"
    /\ LET preferred == rc.preferred_categories \cup ReviewedCategories(rc.user_id)
       IN  rc' = [rc EXCEPT
                    !.preferred_categories = preferred,
                    !.pc = IF preferred # {} THEN "content" ELSE "similar"]
    /\ UNCHANGED <<storeVars, reviewVars, pageVars, auditVars, accountVars>>

\* a stage with the rows recs: the loop over the rows, then the next statement
Stage(recs, next) ==
    LET final == MergeNew(rc.final, Limit(recs, rc.remaining_slots), rc.remaining_slots)
        remaining == rc.remaining_slots - (Len(final) - Len(rc.final))
    IN  rc' = [rc EXCEPT
                 !.final = final,
                 !.remaining_slots = remaining,
                 !.pc = AfterStage(remaining, next)]

\* step 3: get_popular_products_in_categories and the loop over its rows
RecommendContent ==
    /\ rc.pc = "content"
    /\ \E recs \in OrderBy(PopularInCategories(rc.preferred_categories, rc.user_id),
                           BySalesThenView) :
         Stage(recs, "similar")
    /\ UNCHANGED <<storeVars, reviewVars, pageVars, auditVars, accountVars>>

\* LIMIT 10 of the similar users
SimilarLimit == 10

\* step 4: the first query of get_collaborative_filtering_recommendations
RecommendSimilar ==
    /\ rc.pc = "similar"
    /\ \E similar \in SUBSET SimilarUsers(rc.user_id) :
         /\ \/ similar = SimilarUsers(rc.user_id)
            \/ Cardinality(similar) = SimilarLimit
         /\ Cardinality(similar) <= SimilarLimit
         /\ rc' = [rc EXCEPT
                     !.similar_user_ids = similar,
                     !.pc = IF similar = {} THEN "trending" ELSE "collaborative"]
    /\ UNCHANGED <<storeVars, reviewVars, pageVars, auditVars, accountVars>>

\* step 4: the second query and the loop over its rows
RecommendCollaborative ==
    /\ rc.pc = "collaborative"
    /\ \E recs \in OrderBy(Collaborative(rc.user_id, rc.similar_user_ids), Unordered) :
         Stage(recs, "trending")
    /\ UNCHANGED <<storeVars, reviewVars, pageVars, auditVars, accountVars>>

\* step 5: get_global_trending_products and the loop over its rows
RecommendTrending ==
    /\ rc.pc = "trending"
    /\ \E recs \in OrderBy(Trending, BySalesThenView) : Stage(recs, "enrich")
    /\ UNCHANGED <<storeVars, reviewVars, pageVars, auditVars, accountVars>>

\* step 6: the list is cut to limit and returned
RecommendEnrich ==
    /\ rc.pc = "enrich"
    /\ rc' = [rc EXCEPT !.pc = "done", !.result = "ok",
                      !.recommendations = Limit(rc.final, rc.limit)]
    /\ UNCHANGED <<storeVars, reviewVars, pageVars, auditVars, accountVars>>

(***************************************************************************)
(* audit_target                                                            *)
(***************************************************************************)
\* the status a target waits for its audit in
PendingAudit == "pending_audit"

\* audit_config: the status an audit of the given type and result stores
NewStatus(audit_type, audit_result) ==
    IF audit_type = "product"
    THEN (IF audit_result = "pass" THEN "online" ELSE "rejected")
    ELSE (IF audit_result = "pass" THEN "visible" ELSE "hidden")

\* audit_config: the rows of the table of the audit type
TargetTable(audit_type) == IF audit_type = "product" THEN book ELSE posts

AuditRequest(audit_type, target_id, audit_result, audit_note, admin_id) ==
    [audit_type |-> audit_type, target_id |-> target_id, audit_result |-> audit_result,
     audit_note |-> audit_note, admin_id |-> admin_id]

\* an audit_target handler between two requests
IdleAudit ==
    [pc |-> "idle", req |-> AuditRequest("product", 0, "pass", None, 0), now |-> 0,
     new_status |-> "none", result |-> "none"]

\* the response of audit_target to a request
DoneAudit(req, result, new_status) ==
    [IdleAudit EXCEPT !.pc = "done", !.req = req, !.result = result,
                      !.new_status = new_status]

\* verify_admin_permission: a row of users with the id and role 'admin'
IsAdmin(admin_id) == admin_id \in DOMAIN users /\ users[admin_id].role = "admin"

\* the rows the audits in progress may still insert into audit_logs
PendingAudits == Cardinality({a \in DOMAIN au : au[a].pc \in {"target", "update", "log"}})

\* the longest audit note
NoteLimit == 200

\* check_note_for_reject, with values holding the fields validated before:
\* audit_note is None when the request has no note, else the length of the note
NoteCheckAlways(req) ==
    IF req.audit_result = "reject" /\ ~TruthyInt(req.audit_note) THEN "InvalidRequest"
    ELSE IF TruthyInt(req.audit_note) /\ req.audit_note[1] > NoteLimit THEN "InvalidRequest"
    ELSE "ok"

\* the outcomes of the validation of audit_note: the validator of a field runs
\* only when the request carries the field; when it runs, values.get either
\* reads the fields validated before or, values being the validation info and
\* no mapping, fails
NoteCheck(req) ==
    IF req.audit_note = None THEN {"ok"}
    ELSE {NoteCheckAlways(req), "InternalFailure"}

\* check_audit_type and check_audit_result
EnumCheck(req) ==
    IF req.audit_type \notin {"product", "post"} THEN "InvalidRequest"
    ELSE IF req.audit_result \notin {"pass", "reject"} THEN "InvalidRequest"
    ELSE "ok"

\* the outcomes of the validation of the request body
AuditValidation(req) ==
    IF EnumCheck(req) # "ok" THEN {"InvalidRequest"} ELSE NoteCheck(req)

\* step 1: the validation of the body, then verify_admin_permission; 403
\* without the admin role
AuditAdmin(a, req) ==
    /\ au[a].pc \in {"idle", "done"}
    /\ Len(audit_logs) + PendingAudits < MaxAudits
    /\ \E valid \in AuditValidation(req) :
         au' = [au EXCEPT ![a] =
                  IF valid # "ok" THEN DoneAudit(req, valid, "none")
                  ELSE IF IsAdmin(req.admin_id)
                  THEN [IdleAudit EXCEPT !.pc = "target", !.req = req]
                  ELSE DoneAudit(req, "Forbidden", "none")]
    /\ UNCHANGED <<storeVars, reviewVars, pageVars, accountVars, recVars, posts, audit_logs>>

\* AuditTargetCheck without the test of the status
AuditTargetCheckAnyStatus(req) ==
    IF req.target_id \in DOMAIN TargetTable(req.audit_type) THEN "ok" ELSE "NotFound"

\* the SELECT of the target: a row with the id and the pending status, or 404
AuditTargetCheck(req) ==
    IF /\ req.target_id \in DOMAIN TargetTable(req.audit_type)
       /\ TargetTable(req.audit_type)[req.target_id].status = PendingAudit
    THEN "ok"
    ELSE "NotFound"

\* step 2: SELECT of the pending target
AuditTarget(a) ==
    /\ au[a].pc = "target"
    /\ au' = [au EXCEPT ![a] =
                IF AuditTargetCheck(au[a].req) = "ok"
                THEN [au[a] EXCEPT !.pc = "update"]
                ELSE DoneAudit(au[a].req, "NotFound", "none")]
    /\ UNCHANGED <<storeVars, reviewVars, pageVars, accountVars, recVars, posts, audit_logs>>

\* UPDATE .. SET status, update_time, audit_note WHERE id = target_id
Audited(table, req, new_status, now) ==
    [id \in DOMAIN table |->
        IF id = req.target_id
        THEN [table[id] EXCEPT !.status = new_status, !.update_time = now,
                               !.audit_note = req.audit_note]
        ELSE table[id]]

\* step 3: UPDATE of the target
AuditUpdate(a) ==
    /\ au[a].pc = "update"
    /\ LET req == au[a].req
           new_status == NewStatus(req.audit_type, req.audit_result)
       IN  /\ book' = IF req.audit_type = "product"
                        THEN Audited(book, req, new_status, clock) ELSE book
           /\ posts' = IF req.audit_type = "product"
                         THEN posts ELSE Audited(posts, req, new_status, clock)
           /\ au' = [au EXCEPT ![a] = [au[a] EXCEPT !.pc = "log", !.now = clock,
                                                     !.new_status = new_status]]
    /\ UNCHANGED <<orders, nextOrderId, clock, co, uo, reviewVars, pageVars, accountVars, recVars,
                   audit_logs>>

\* the row of audit_logs of an audit
AuditLogRow(c) ==
    [audit_type |-> c.req.audit_type, target_id |-> c.req.target_id,
     admin_id |-> c.req.admin_id, audit_result |-> c.req.audit_result,
     audit_note |-> c.req.audit_note, create_time |-> c.now]

\* step 4: INSERT INTO audit_logs, and the response
AuditLog(a) ==
    /\ au[a].pc = "log"
    /\ audit_logs' = Append(audit_logs, AuditLogRow(au[a]))
    /\ au' = [au EXCEPT ![a] = DoneAudit(au[a].req, "ok", au[a].new_status)]
    /\ UNCHANGED <<storeVars, reviewVars, pageVars, accountVars, recVars, posts>>

(***************************************************************************)
(* register of auth.py and register of users.py.  A phone, an email and a  *)
(* password are numbers; the requests are those whose body passes the      *)
(* length checks of the parameters.                                        *)
(***************************************************************************)
\* via is the module of the handler: "auth" or "users"
RegisterRequest(via, phone, email, password, school_id) ==
    [via |-> via, phone |-> phone, email |-> email, password |-> password,
     school_id |-> school_id]

\* a register handler between two requests
IdleRegister ==
    [pc |-> "idle", req |-> RegisterRequest("auth", 0, 0, 0, None), user_id |-> 0,
     result |-> "none"]

\* the response of register to a request
DoneRegister(req, result, user_id) ==
    [IdleRegister EXCEPT !.pc = "done", !.req = req, !.result = result, !.user_id = user_id]

\* the rows SELECT ID FROM logindata WHERE phone = .. returns
AccountsOfPhone(phone) == {i \in DOMAIN logindata : logindata[i].phone = phone}

\* the rows SELECT ID FROM logindata WHERE email = .. returns
AccountsOfEmail(email) == {i \in DOMAIN logindata : logindata[i].email = email}

\* the rows the requests in progress may still insert into logindata
PendingAccounts == Cardinality({g \in DOMAIN rg : rg[g].pc \in {"email", "insert"}})

\* the first statement: a phone that is registered is refused with 400
RegisterPhone(g, req) ==
    /\ rg[g].pc \in {"idle", "done"}
    /\ Len(logindata) + PendingAccounts < MaxAccounts
    /\ rg' = [rg EXCEPT ![g] =
                IF AccountsOfPhone(req.phone) # {}
                THEN DoneRegister(req, "PhoneRegistered", 0)
                ELSE [IdleRegister EXCEPT !.pc = "email", !.req = req]]
    /\ UNCHANGED <<storeVars, reviewVars, pageVars, recVars, auditVars, logindata>>

\* the second statement: an email that is registered is refused with 400
RegisterEmail(g) ==
    /\ rg[g].pc = "email"
    /\ rg' = [rg EXCEPT ![g] =
                IF AccountsOfEmail(rg[g].req.email) # {}
                THEN DoneRegister(rg[g].req, "EmailRegistered", 0)
                ELSE [rg[g] EXCEPT !.pc = "insert"]]
    /\ UNCHANGED <<storeVars, reviewVars, pageVars, recVars, auditVars, logindata>>

\* hashlib.md5 of the password: the hash is the password's number
Md5(password) == password

\* INSERT INTO logindata (phone, email, password)
RegisterInsert(g) ==
    /\ rg[g].pc = "insert"
    /\ logindata' = Append(logindata, [phone |-> rg[g].req.phone, email |-> rg[g].req.email,
                                       password |-> Md5(rg[g].req.password)])
    /\ rg' = [rg EXCEPT ![g] = [rg[g] EXCEPT !.pc = "id"]]
    /\ UNCHANGED <<storeVars, reviewVars, pageVars, recVars, auditVars>>

\* the ids the handler may read for its new account: users.py reads
\* LAST_INSERT_ID() on a connection that has inserted nothing, auth.py reads
\* one row with its phone
NewAccountIds(req) ==
    IF req.via = "users" THEN {NoInsertId} ELSE AccountsOfPhone(req.phone)

\* the statement that reads the id of the new account
RegisterId(g) ==
    /\ rg[g].pc = "id"
    /\ \E id \in NewAccountIds(rg[g].req) :
         rg' = [rg EXCEPT ![g] = [rg[g] EXCEPT !.pc = "profile", !.user_id = id]]
    /\ UNCHANGED <<storeVars, reviewVars, pageVars, recVars, auditVars, logindata>>

\* the table users with one more row
WithUser(user_id, row) ==
    [u \in DOMAIN users \cup {user_id} |-> IF u = user_id THEN row ELSE users[u]]

\* INSERT INTO users and the response; user_id is the key of users, so that the
\* INSERT of a user_id that has a row fails
RegisterProfile(g) ==
    /\ rg[g].pc = "profile"
    /\ IF rg[g].user_id \in DOMAIN users
       THEN /\ rg' = [rg EXCEPT ![g] = DoneRegister(rg[g].req, "InternalFailure", 0)]
            /\ users' = users
       ELSE /\ rg' = [rg EXCEPT ![g] = DoneRegister(rg[g].req, "ok", rg[g].user_id)]
            /\ users' = WithUser(rg[g].user_id,
                                 UserRow(IF rg[g].req.via = "users" THEN rg[g].req.school_id
                                         ELSE None,
                                         "user", DefaultRating, 0))
    /\ UNCHANGED <<storeVars, reviews, cr, pageVars, recVars, auditVars, logindata>>

(***************************************************************************)
(* Specifications.                                                         *)
(***************************************************************************)
\* the state of the store, with the handlers C and U waiting for a request
InitStore(C, U, B, O) ==
    /\ book = B
    /\ orders = O
    /\ nextOrderId = Cardinality(O) + 1
    /\ clock = 0
    /\ co = [p \in C |-> IdleCreate]
    /\ uo = [u \in U |-> IdleUpdate]
    /\ reviews = << >>
    /\ users = << >>
    /\ cr = << >>
    /\ pg = IdlePage
    /\ InitAdmin

\* a book on sale, as add_book or create_product inserts it
BookOnSale(stock) == BookRow(1, 20, stock, OnSale)

\* the order a buyer's create_order has inserted for that book
FirstOrder ==
    NewOrder(1, [req |-> CreateRequest(1, 7, 1, PickupOk), seller |-> 1,
                 total |-> TotalAmount(20, 1)], 0)

(***************************************************************************)
(* SpecStatus: two concurrent update_order_status handlers on the orders   *)
(* table, within one second.                                               *)
(***************************************************************************)
InitStatus == InitStore({}, {"u1", "u2"}, <<BookOnSale(3)>>, {FirstOrder})

\* the ids of the orders in the table, and an id that no order has
KnownOrMissing == {o.order_id : o \in orders} \cup {nextOrderId}

NextStatus ==
    \/ \E u \in DOMAIN uo, req \in UpdateRequests(KnownOrMissing) :
          UpdateOrderStatusRead(u, req)
    \/ \E u \in DOMAIN uo : UpdateOrderStatusWrite(u)

SpecStatus == InitStatus /\ [][NextStatus]_vars

(***************************************************************************)
(* The order lifecycle as the specification states it.                     *)
(***************************************************************************)
\* the edges of the transition table of the order lifecycle
Edges ==
    {<<"pending_pay", "cancelled">>, <<"pending_pay", "pending_ship">>,
     <<"pending_ship", "cancelled">>, <<"pending_ship", "pending_receive">>,
     <<"pending_receive", "completed">>, <<"pending_receive", "cancelled">>}

Terminal == {"completed", "cancelled"}

\* the HTTP status code of an outcome
HttpCode(result) ==
    CASE result = "OK" -> 200
      [] result = "Created" -> 201
      [] result = "Forbidden" -> 403
      [] result = "NotFound" -> 404
      [] OTHER -> 400

\* o2 is the row of the order o
SameOrder(o, o2) == o2.order_id = o.order_id

\* the step is the first one of a request handled by u
UpdateStarts(u) == uo[u].pc # "write" /\ uo'[u] # uo[u]

\* the request of operator op to give the order o the status s
UpdateRequest(o, s, op, l) ==
    [order_id |-> o.order_id, status |-> s, operator_id |-> op, logistics_no |-> l]

\* the buyer and the seller of the order o
Parties(o) == {o.buyer_id, o.seller_id}

C8_TerminalIsFinal ==
    [][\A o \in orders, o2 \in orders' :
          (SameOrder(o, o2) /\ o2.status # o.status)
          => (o.status \notin Terminal /\ <<o.status, o2.status>> \in Edges)]_vars

\* C9: a request whose operator is neither the buyer nor the seller of the
\* order fails with Forbidden (403) whatever status it asks for, also a status
\* that is no edge of the table, and changes no order row.
C9_StrangerForbidden ==
    [][\A u \in DOMAIN uo :
          UpdateStarts(u)
          => \A o \in orders, s \in Statuses, l \in TrackingNos :
                \A op \in Operators \ Parties(o) :
                   UpdateOrderStatusRead(u, UpdateRequest(o, s, op, l))
                   => (/\ uo'[u].pc = "done"
                       /\ uo'[u].result = "Forbidden"
                       /\ HttpCode(uo'[u].result) = 403
                       /\ orders' = orders)]_vars

\* C9 witness: a request has been refused with Forbidden while every order is
\* in a terminal status, where no requested status is an edge of the table.
C9_Witness ==
    /\ orders # {}
    /\ \A o \in orders : o.status \in Terminal
    /\ \E u \in DOMAIN uo : uo[u].pc = "done" /\ uo[u].result = "Forbidden"
    /\ \A u \in DOMAIN uo : uo[u].pc = "done"

\* C10: a request of the buyer or the seller to move an order to
\* pending_receive without a non-empty tracking number fails with 400 and
\* changes no order row; every order in status pending_receive has a non-empty
\* tracking number; a write of any other status leaves the tracking number.
C10_TrackingNumber ==
    /\ [](\A o \in orders : o.status = "pending_receive" => TruthyStr(o.logistics_no))
    /\ [][/\ \A u \in DOMAIN uo :
               UpdateStarts(u)
               => \A o \in orders, l \in {t \in TrackingNos : ~TruthyStr(t)} :
                     \A op \in Parties(o) :
                        UpdateOrderStatusRead(u, UpdateRequest(o, "pending_receive", op, l))
                        => (/\ uo'[u].pc = "done"
                            /\ HttpCode(uo'[u].result) = 400
                            /\ orders' = orders)
          /\ \A o \in orders, o2 \in orders' :
               (SameOrder(o, o2) /\ o2.logistics_no # o.logistics_no)
               => (o2.status = "pending_receive" /\ TruthyStr(o2.logistics_no))
          /\ \A o \in orders, o2 \in orders' :
               (SameOrder(o, o2) /\ o2.status # o.status /\ o2.status # "pending_receive")
               => o2.logistics_no = o.logistics_no
         ]_vars

\* C10 witness: an order shipped with a tracking number has been completed and
\* keeps the number, and a request without a number has failed.
C10_Witness ==
    /\ \E o \in orders : o.status = "completed" /\ o.logistics_no = Some("SF1")
    /\ \E u \in DOMAIN uo : uo[u].pc = "done" /\ uo[u].result = "InvalidRequest"

(***************************************************************************)
(* SpecRace: two concurrent create_order requests, each for one copy of a  *)
(* book with one copy in stock.                                            *)
(***************************************************************************)
InitRace == InitStore({"c1", "c2"}, {}, <<BookOnSale(1)>>, {})

NextRace ==
    \/ \E p \in DOMAIN co, b \in Buyers :
          co[p].pc = "idle" /\ CreateOrderRead(p, CreateRequest(1, b, 1, PickupOk))
    \/ \E p \in DOMAIN co : CreateOrderInsert(p)
    \/ \E p \in DOMAIN co : CreateOrderDecrement(p)
    \/ \E p \in DOMAIN co : CreateOrderDelete(p)
    \/ \E p \in DOMAIN co : CreateOrderReturn(p)
    \/ Tick

SpecRace == InitRace /\ [][NextRace]_vars

\* C2: when both requests have finished, exactly one has succeeded, the other
\* has failed with InsufficientStock, and the only order row is the row of the
\* request that succeeded.
C2_ExactlyOneOrder ==
    (\A p \in DOMAIN co : co[p].pc = "done")
    => \E w \in DOMAIN co :
          /\ co[w].result = "Created"
          /\ \A l \in DOMAIN co \ {w} : co[l].result = "InsufficientStock"
          /\ Cardinality(orders) = 1
          /\ \A o \in orders : o.order_id = co[w].row_id

\* C4: a request that fails changes no stock and no order row of another
\* request: its failed checks and its failed decrement change nothing, and its
\* compensating delete removes the row it inserted and no other.
C4_FailureLeavesStore ==
    [][\A p \in DOMAIN co :
          /\ (co[p].pc \in {"idle", "done"} /\ co'[p] # co[p] /\ co'[p].pc = "done")
             => (orders' = orders /\ book' = book)
          /\ (co[p].pc = "decrement" /\ co'[p].pc = "delete")
             => (orders' = orders /\ book' = book)
          /\ (co[p].pc = "delete" /\ co'[p].pc = "done")
             => (/\ book' = book
                 /\ orders' = {o \in orders : o.order_id # co[p].row_id})]_vars

\* C5: no two order rows have the same order number.
C5_OrderNoUnique ==
    \A o1 \in orders, o2 \in orders : o1.order_no = o2.order_no => o1 = o2

(***************************************************************************)
(* Spec: create_order requests against the handlers that write book rows.  *)
(***************************************************************************)
\* the optional fields of an update request
Patch(price, stock, status) == [price |-> price, stock |-> stock, status |-> status]

StockPatches ==
    {Patch(None, Some(0), None), Patch(None, Some(1), None), Patch(None, Some(0 - 1), None),
     Patch(None, None, Some(0)), Patch(None, None, Some(1)), Patch(None, None, None)}

PricePatches == {Patch(Some(pr), None, None) : pr \in Prices}

\* an id that is not in the users table
Unregistered == {5}

Init == InitStore({"c1"}, {}, << >>, {})

Next ==
    \/ \E p \in DOMAIN co, pid \in BookIds, q \in Quantities, f \in Fulfillments :
          CreateOrderRead(p, CreateRequest(pid, 7, q, f))
    \/ \E p \in DOMAIN co : CreateOrderInsert(p)
    \/ \E p \in DOMAIN co : CreateOrderDecrement(p)
    \/ \E p \in DOMAIN co : CreateOrderDelete(p)
    \/ \E p \in DOMAIN co : CreateOrderReturn(p)
    \/ \E s \in Sellers, st \in BookStatuses, k \in {0, 2} : add_book(s, 20, st, k)
    \/ \E b \in BookIds, pa \in StockPatches : update_book(b, pa.price, pa.stock, pa.status)
    \/ \E s \in Sellers \cup Unregistered, k \in {0 - 1, 1} : create_product(s, 20, k)
    \/ \E b \in BookIds, s \in Sellers \cup Strangers, pa \in StockPatches :
          update_product(b, s, pa.price, pa.stock, pa.status)
    \/ Tick

Spec == Init /\ [][Next]_vars

\* the step is the first one of a request handled by p
CreateStarts(p) == co[p].pc \in {"idle", "done"} /\ co'[p] # co[p]

\* the step is the statement that p executes at pc
CreateStep(p, pc) == co[p].pc = pc /\ co'[p] # co[p]

\* a request for more copies than the book has in stock fails at the first
\* read with InsufficientStock and changes nothing; onSaleOnly restricts the
\* statement to books on sale
StockCheckedAtRead(p, onSaleOnly) ==
    CreateStarts(p)
    => \A pid \in DOMAIN book, b \in Buyers, f \in Fulfillments :
          \A q \in {x \in Quantities : x > book[pid].stock} :
             (/\ onSaleOnly => book[pid].status = OnSale
              /\ CreateOrderRead(p, CreateRequest(pid, b, q, f)))
             => (/\ co'[p].pc = "done"
                 /\ co'[p].result = "InsufficientStock"
                 /\ orders' = orders
                 /\ book' = book)

\* a conditional decrement that finds less stock than the quantity changes no
\* stock, and the delete that follows leaves no row of the request and fails
\* with InsufficientStock
StockCheckedAtWrite(p) ==
    /\ (/\ CreateStep(p, "decrement")
        /\ book[co[p].req.product_id].stock < co[p].req.quantity)
       => (co'[p].pc = "delete" /\ book' = book /\ orders' = orders)
    /\ CreateStep(p, "delete")
       => (/\ co'[p].pc = "done"
           /\ co'[p].result = "InsufficientStock"
           /\ \A o \in orders' : o.order_id # co[p].row_id)

\* no row of a request that has failed with InsufficientStock is in the table
NoRowOfFailed ==
    \A p \in DOMAIN co :
       (co[p].pc = "done" /\ co[p].result = "InsufficientStock")
       => \A o \in orders : o.order_id # co[p].row_id

\* C3 as stated: a request for a quantity greater than the stock of the book
\* always fails with InsufficientStock, and no order row of the request is
\* persisted when it returns.
C3_InsufficientStockAlways ==
    /\ []NoRowOfFailed
    /\ [][\A p \in DOMAIN co : StockCheckedAtRead(p, FALSE) /\ StockCheckedAtWrite(p)]_vars

\* C3 as amended: a request for a quantity greater than the stock of a book
\* that is on sale always fails with InsufficientStock, at the first read or
\* at the conditional decrement, and no order row of the request is persisted
\* when it returns.
C3_InsufficientStockOnSale ==
    /\ []NoRowOfFailed
    /\ [][\A p \in DOMAIN co : StockCheckedAtRead(p, TRUE) /\ StockCheckedAtWrite(p)]_vars

\* C3 witness: a request has inserted its row, has found the stock too low at
\* the decrement, and has failed with InsufficientStock.
C3_Witness ==
    \E p \in DOMAIN co :
       /\ co[p].pc = "done"
       /\ co[p].result = "InsufficientStock"
       /\ co[p].row_id >= 1
       /\ \E b \in DOMAIN book : book[b].status = OnSale /\ book[b].stock = 1

\* C6: the stock of every book is at least 0.
C6_StockNonNegative ==
    \A b \in DOMAIN book : book[b].stock >= 0

(***************************************************************************)
(* SpecLife: the orders a buyer places within one second, from creation to *)
(* the terminal statuses, while the seller edits the price and the stock   *)
(* of the book.                                                            *)
(***************************************************************************)
InitLife == InitStore({"c1"}, {"u1"}, <<BookOnSale(3)>>, {})

NextLife ==
    \/ \E p \in DOMAIN co, q \in Quantities :
          CreateOrderRead(p, CreateRequest(1, 7, q, PickupOk))
    \/ \E p \in DOMAIN co : CreateOrderInsert(p)
    \/ \E p \in DOMAIN co : CreateOrderDecrement(p)
    \/ \E p \in DOMAIN co : CreateOrderDelete(p)
    \/ \E p \in DOMAIN co : CreateOrderReturn(p)
    \/ \E u \in DOMAIN uo, id \in OrderIds, s \in Statuses :
          UpdateOrderStatusRead(u, [order_id |-> id, status |-> s, operator_id |-> 7,
                                    logistics_no |-> Some("SF1")])
    \/ \E u \in DOMAIN uo : UpdateOrderStatusWrite(u)
    \/ \E pa \in PricePatches \cup {Patch(None, Some(0), None)} :
          update_product(1, 1, pa.price, pa.stock, pa.status)

SpecLife == InitLife /\ [][NextLife]_vars

\* C7: a request reads the price once; its insert adds one row with status
\* pending_pay and total_amount = that price x quantity; its decrement takes
\* exactly quantity from the stock of the book; the response carries that
\* total; and no step of any handler changes the total_amount of a row.
C7_TotalFixedAtCreation ==
    [][/\ \A p \in DOMAIN co :
            /\ (CreateStarts(p) /\ co'[p].pc = "insert")
               => co'[p].price = book[co'[p].req.product_id].price
            /\ CreateStep(p, "insert")
               => \E r \in orders' \ orders :
                     /\ orders' = orders \cup {r}
                     /\ r.order_id = co'[p].row_id
                     /\ r.status = "pending_pay"
                     /\ r.product_id = co[p].req.product_id
                     /\ r.quantity = co[p].req.quantity
                     /\ r.total_amount = co[p].price * co[p].req.quantity
            /\ (CreateStep(p, "decrement") /\ co'[p].pc = "return")
               => book' = [book EXCEPT ![co[p].req.product_id].stock =
                                          @ - co[p].req.quantity]
            /\ CreateStep(p, "return")
               => (/\ co'[p].result = "Created"
                   /\ co'[p].total = co[p].price * co[p].req.quantity
                   /\ orders' = orders /\ book' = book)
       /\ \A o \in orders, o2 \in orders' :
            SameOrder(o, o2) => o2.total_amount = o.total_amount
      ]_vars

\* C7 witness: the book had stock 3 and price 20; an order for 2 copies has
\* been created with total 40 and has been completed, the stock is 1, and the
\* seller has since raised the price to 35.
C7_Witness ==
    /\ book[1].stock = 1
    /\ book[1].price = 35
    /\ \E p \in DOMAIN co : co[p].pc = "done" /\ co[p].result = "Created" /\ co[p].total = 40
    /\ \E o \in orders : o.quantity = 2 /\ o.total_amount = 40 /\ o.status = "completed"

(***************************************************************************)
(* SpecReview: two concurrent create_review handlers on two completed      *)
(* orders and one shipped order of buyer 7, all sold by seller 1.          *)
(***************************************************************************)
\* the order id of buyer 7 for one copy of book 1, in the given status
OrderInStatus(id, status) == [FirstOrder EXCEPT !.order_id = id, !.status = status]

ReviewedOrders ==
    {OrderInStatus(1, "completed"), OrderInStatus(2, "completed"),
     OrderInStatus(3, "pending_receive")}

\* the ids of the orders, and an id that no order has
ReviewOrderIds == {o.order_id : o \in ReviewedOrders} \cup {Cardinality(ReviewedOrders) + 1}

Ratings == {1, 4}
Contents == {None, Some(600)}
ImageCounts == {0, MaxImages + 1}

\* the rating, content and images of the requests
Payloads ==
    {[rating |-> 1, content |-> None, images |-> 0],
     [rating |-> 4, content |-> Some(600), images |-> 0],
     [rating |-> 4, content |-> None, images |-> MaxImages + 1],
     [rating |-> 1, content |-> Some(600), images |-> MaxImages + 1]}

ReviewRequests ==
    {ReviewRequest(id, u, pl.rating, pl.content, pl.images) :
        id \in ReviewOrderIds, u \in {7} \cup Strangers, pl \in Payloads}

InitReview ==
    /\ book = <<BookOnSale(3)>>
    /\ orders = ReviewedOrders
    /\ nextOrderId = Cardinality(ReviewedOrders) + 1
    /\ clock = 0
    /\ co = << >>
    /\ uo = << >>
    /\ reviews = << >>
    /\ users = [s \in Sellers |-> UserRow(None, "user", DefaultRating, 0)]
    /\ cr = [r \in {"r1", "r2"} |-> IdleReview]
    /\ pg = IdlePage
    /\ InitAdmin

NextReview ==
    \/ \E r \in DOMAIN cr, req \in ReviewRequests : CreateReviewRead(r, req)
    \/ \E r \in DOMAIN cr : CreateReviewExists(r)
    \/ \E r \in DOMAIN cr : CreateReviewInsert(r)
    \/ \E r \in DOMAIN cr : CreateReviewAggregate(r)
    \/ \E r \in DOMAIN cr : CreateReviewProfile(r)

SpecReview == InitReview /\ [][NextReview]_vars

\* the step is the first one of a request handled by r
ReviewStarts(r) == cr[r].pc \in {"idle", "done"} /\ cr'[r] # cr[r]

\* the step is the statement that r executes at pc
ReviewStep(r, pc) == cr[r].pc = pc /\ cr'[r] # cr[r]

\* the request of r has failed in this step with the given error and has
\* changed neither the reviews nor the users
ReviewFails(r, error) ==
    /\ cr'[r].pc = "done"
    /\ cr'[r].result = error
    /\ reviews' = reviews
    /\ users' = users

\* no step changes or removes a review
ReviewsKept == \A i \in DOMAIN reviews : i \in DOMAIN reviews' /\ reviews'[i] = reviews[i]

\* the buyers of the order with the given id
BuyersOf(order_id) == {o.buyer_id : o \in OrderRows(order_id)}

\* the duplicate check of a request for a reviewed order fails with
\* DuplicateReview, whatever the request carries
DuplicateRefused(r) ==
    (ReviewStep(r, "exists") /\ ReviewsOfOrder(cr[r].req.order_id) # {})
    => ReviewFails(r, "DuplicateReview")

\* a request for a reviewed order passes step 1 without a change when its
\* reviewer is in the set given for the order, and fails with NotFound otherwise
LaterRequest(r, Reviewers(_)) ==
    ReviewStarts(r)
    => \A id \in {reviews[i].order_id : i \in DOMAIN reviews}, pl \in Payloads :
          /\ \A u \in Reviewers(id) :
                CreateReviewRead(r, ReviewRequest(id, u, pl.rating, pl.content, pl.images))
                => (cr'[r].pc = "exists" /\ reviews' = reviews /\ users' = users)
          /\ \A u \in ({7} \cup Strangers) \ Reviewers(id) :
                CreateReviewRead(r, ReviewRequest(id, u, pl.rating, pl.content, pl.images))
                => ReviewFails(r, "NotFound")

\* every reviewer
AnyReviewer(order_id) == {7} \cup Strangers

\* C11 as stated: after a review has been created for an order, every later
\* request for that order fails with DuplicateReview, whoever the reviewer is
\* and whatever rating, content and images it carries, and adds no review row.
C11_DuplicateForAnyReviewer ==
    [][/\ ReviewsKept
       /\ \A r \in DOMAIN cr : LaterRequest(r, AnyReviewer) /\ DuplicateRefused(r)]_vars

\* C11 as amended: after a review has been created for an order, every later
\* request of the buyer of that order fails with DuplicateReview, and every
\* later request of another reviewer fails with NotFound, whatever rating,
\* content and images it carries; none of them adds a review row.
C11_DuplicateForBuyer ==
    [][/\ ReviewsKept
       /\ \A r \in DOMAIN cr : LaterRequest(r, BuyersOf) /\ DuplicateRefused(r)]_vars

\* C11 witness: one review exists, a request for its order has failed with
\* DuplicateReview and a request of another reviewer with NotFound.
C11_Witness ==
    /\ Len(reviews) = 1
    /\ \E r \in DOMAIN cr : cr[r].pc = "done" /\ cr[r].result = "DuplicateReview"
    /\ \E r \in DOMAIN cr : cr[r].pc = "done" /\ cr[r].result = "NotFound"

\* C13: step 1 fails with NotFound when no order with the id has the reviewer
\* as buyer, else with InvalidState when the status of the order is not
\* completed, whatever else the request carries; step 2 fails with
\* DuplicateReview when the order has a review; every failure leaves the
\* reviews and the seller's rating and review count unchanged; and a request
\* inserts its review only after both checks have passed, for a completed
\* order of the reviewer that had no review when it was checked.
C13_ChecksInOrder ==
    [][\A r \in DOMAIN cr :
          /\ ReviewStarts(r)
             => \A req \in ReviewRequests :
                   CreateReviewRead(r, req)
                   => IF req.reviewer_id \notin BuyersOf(req.order_id)
                      THEN ReviewFails(r, "NotFound")
                      ELSE IF \E o \in OrderRows(req.order_id) : o.status # "completed"
                      THEN ReviewFails(r, "InvalidState")
                      ELSE cr'[r].pc = "exists" /\ reviews' = reviews /\ users' = users
          /\ DuplicateRefused(r)
          /\ (ReviewStep(r, "exists") /\ cr'[r].pc = "insert")
             => (/\ ReviewsOfOrder(cr[r].req.order_id) = {}
                 /\ reviews' = reviews /\ users' = users)
          /\ (cr'[r].pc = "done" /\ cr'[r] # cr[r] /\ cr'[r].result # "Created")
             => (reviews' = reviews /\ users' = users)
          /\ ReviewStep(r, "insert")
             => (/\ Len(reviews') = Len(reviews) + 1
                 /\ \E o \in orders :
                       /\ o.order_id = reviews'[Len(reviews')].order_id
                       /\ o.buyer_id = reviews'[Len(reviews')].reviewer_id
                       /\ o.seller_id = reviews'[Len(reviews')].seller_id
                       /\ o.status = "completed")
          /\ (cr'[r].pc = "done" /\ cr'[r] # cr[r] /\ cr'[r].result = "Created")
             => cr[r].pc = "profile"]_vars

\* C13 witness: a review has been created, and requests have failed with
\* InvalidState and with DuplicateReview.
C13_Witness ==
    /\ Len(reviews) >= 1
    /\ \E r \in DOMAIN cr : cr[r].pc = "done" /\ cr[r].result = "InvalidState"
    /\ \E r \in DOMAIN cr : cr[r].pc = "done" /\ cr[r].result = "DuplicateReview"

\* C12: no order is referenced by two reviews.
C12_OneReviewPerOrder ==
    \A i \in DOMAIN reviews, j \in DOMAIN reviews :
       reviews[i].order_id = reviews[j].order_id => i = j

(***************************************************************************)
(* SpecAggregate: two concurrent create_review requests of buyer 7, one    *)
(* for each completed order of seller 1.                                   *)
(***************************************************************************)
\* the completed order each request reviews
OrderReviewedBy == [r1 |-> 1, r2 |-> 2]

NextAggregate ==
    \/ \E r \in DOMAIN cr, ra \in Ratings, c \in Contents, n \in ImageCounts :
          /\ cr[r].pc = "idle"
          /\ CreateReviewRead(r, ReviewRequest(OrderReviewedBy[r], 7, ra, c, n))
    \/ \E r \in DOMAIN cr : CreateReviewExists(r)
    \/ \E r \in DOMAIN cr : CreateReviewInsert(r)
    \/ \E r \in DOMAIN cr : CreateReviewAggregate(r)
    \/ \E r \in DOMAIN cr : CreateReviewProfile(r)

SpecAggregate == InitReview /\ [][NextAggregate]_vars

\* C14: when no create_review request is in progress, the review_count of
\* every seller is the number of the reviews of that seller, and when the
\* seller has reviews the avg_rating is their average, to one decimal.
C14_ProfileMatchesReviews ==
    (\A r \in DOMAIN cr : cr[r].pc \in {"idle", "done"})
    => \A s \in DOMAIN users :
          /\ users[s].review_count = Cardinality(ReviewsOfSeller(s))
          /\ ReviewsOfSeller(s) # {} => users[s].avg_rating = AvgRating(ReviewsOfSeller(s))

(***************************************************************************)
(* SpecPage: calls of execute_query_paginated on a table of 0..MaxRows     *)
(* rows that does not change.                                              *)
(***************************************************************************)
Pages == (0 - 1) .. MaxPage
PageSizes == {0 - 1, 0, 1, 3, DefaultPageSize, PageSizeLimit, PageSizeLimit + 1}

InitPage ==
    /\ book \in {[i \in 1 .. T |-> BookOnSale(1)] : T \in 0 .. MaxRows}
    /\ orders = {}
    /\ nextOrderId = 1
    /\ clock = 0
    /\ co = << >>
    /\ uo = << >>
    /\ reviews = << >>
    /\ users = << >>
    /\ cr = << >>
    /\ pg = IdlePage
    /\ InitAdmin

NextPage ==
    \/ \E page \in Pages, page_size \in PageSizes : PaginateData(page, page_size)
    \/ PaginateCount

SpecPage == InitPage /\ [][NextPage]_vars

\* the least k with k * s >= T
Ceil(T, s) == CHOOSE k \in 0 .. T : k * s >= T /\ \A j \in 0 .. (k - 1) : j * s < T

\* the result of a finished call is page p of size s of the T rows of the base
\* result: the rows at offsets (p-1)*s .. min(p*s, T)-1, total = T, page = p,
\* page_size = s, total_pages = ceil(T / s)
IsPage(p, s) ==
    LET T  == Len(BaseResult)
        lo == (p - 1) * s
        hi == IF p * s < T THEN p * s ELSE T
    IN /\ Len(pg.data) = (IF hi > lo THEN hi - lo ELSE 0)
       /\ \A k \in 1 .. Len(pg.data) : pg.data[k] = BaseResult[lo + k]
       /\ pg.total = T
       /\ pg.page = p
       /\ pg.page_size = s
       /\ pg.offset = lo
       /\ pg.total_pages = Ceil(T, s)

Listed == {<<"online", 2>>, <<"online", 0>>, <<"rejected", 2>>}

\* books 1 and 3 are sold by user 1 of school 1, book 2 by user 2 of school 2
Catalogue ==
    {<<CatalogRow(1, l1[1], l1[2], 5, 1),
       CatalogRow(2, l2[1], l2[2], 5, 2),
       CatalogRow(1, l3[1], l3[2], 1, 1)>> : l1 \in Listed, l2 \in Listed, l3 \in Listed}

\* a completed order of a buyer for a book
CompletedOrder(id, buyer_id, product_id) ==
    [FirstOrder EXCEPT !.order_id = id, !.buyer_id = buyer_id,
                       !.seller_id = IF product_id = 2 THEN 2 ELSE 1,
                       !.product_id = product_id, !.status = "completed"]

\* user 7 has bought book 1; user 8 has bought books 1, 2 and 3
PastOrders ==
    {CompletedOrder(1, 7, 1), CompletedOrder(2, 8, 1), CompletedOrder(3, 8, 2),
     CompletedOrder(4, 8, 3)}

\* the review of user 7 for book 2
PastReview ==
    [order_id |-> 5, reviewer_id |-> 7, seller_id |-> 2, product_id |-> 2,
     rating |-> 4, content |-> None, images |-> 0, create_time |-> 0, update_time |-> 0]

\* the users: the two sellers and the two buyers, user 7 with or without school
RecUsers(school_id) ==
    [u \in {1, 2, 7, 8} |->
        UserRow(IF u = 7 THEN school_id ELSE IF u \in {1, 2} THEN Some(u) ELSE None,
                "user", DefaultRating, 0)]

\* the users of the requests: user 7, and user 5 who does not exist
RecUserIds == {7, 5}

InitRec ==
    /\ book \in Catalogue
    /\ orders \in SUBSET PastOrders
    /\ nextOrderId = Cardinality(PastOrders) + 1
    /\ clock = 0
    /\ co = << >>
    /\ uo = << >>
    /\ reviews \in {<< >>, <<PastReview>>}
    /\ users \in {RecUsers(None), RecUsers(Some(1))}
    /\ cr = << >>
    /\ pg = IdlePage
    /\ InitAdmin

NextRec ==
    \/ \E user_id \in RecUserIds, limit \in 1 .. MaxLimit : RecommendUser(user_id, limit)
    \/ RecommendSchool
    \/ RecommendSchoolPopular
    \/ RecommendPurchased
    \/ RecommendReviewed
    \/ RecommendContent
    \/ RecommendSimilar
    \/ RecommendCollaborative
    \/ RecommendTrending
    \/ RecommendEnrich

SpecRec == InitRec /\ [][NextRec]_vars

\* no id occurs twice in the list
NoRepeat(seq) == \A i, j \in DOMAIN seq : seq[i] = seq[j] => i = j

\* the list next begins with the list seq
Extends(next, seq) == Len(seq) <= Len(next) /\ SubSeq(next, 1, Len(seq)) = seq

\* C17: every statement of the request keeps the ids chosen so far at the
\* head of the list and appends only ids that are not in it, and the list
\* returned has at most limit entries and no product id twice.
C17_NoDuplicatesWithinLimit ==
    [][rc.pc \notin {"idle", "done"}
       => /\ Extends(rc'.final, rc.final)
          /\ NoRepeat(rc'.final)
          /\ rc'.pc = "done"
             => /\ Len(rc'.recommendations) <= rc.limit
                /\ NoRepeat(rc'.recommendations)
                /\ Range(rc'.recommendations) \subseteq Range(rc.final)]_vars

\* C17 witness: for a user of school 1 and limit 3, with three books on sale
\* and no orders, the school stage chose book 1 and the trending rows were
\* books 1 and 2: book 1 was not appended again.
C17_Witness ==
    /\ rc.pc = "done" /\ rc.result = "ok" /\ rc.limit = 3
    /\ rc.school_id = Some(1) /\ rc.school_recs_limit = 1
    /\ orders = {} /\ reviews = << >>
    /\ \A b \in DOMAIN book : Online(b)
    /\ rc.recommendations = <<1, 2>>

\* C18: every product id in the list is, when its stage selects it, the id of
\* a book that is online and has stock above 0.
C18_InStockAndOnline ==
    \A i \in DOMAIN rc.final : Online(rc.final[i]) /\ book[rc.final[i]].stock > 0

\* the user has no school, no completed order and no review, and so no
\* similar buyer
NoHistory(user_id) ==
    /\ ~TruthyInt(users[user_id].school_id)
    /\ \A o \in orders : o.buyer_id = user_id => o.status # "completed"
    /\ \A i \in DOMAIN reviews : reviews[i].reviewer_id # user_id
    /\ SimilarUsers(user_id) = {}

\* book a ranks above book b: more completed orders, or as many and more views
RanksAbove(a, b) ==
    LET sales(x) == Cardinality({o \in orders : o.product_id = x /\ o.status = "completed"})
    IN  \/ sales(a) > sales(b)
        \/ sales(a) = sales(b) /\ book[a].view > book[b].view

\* the books on sale
OnSaleBooks == {b \in DOMAIN book : book[b].status = "online"}

\* seq is the first count entries of the ranking of the books on sale
IsTopOfRanking(seq, count) ==
    /\ Len(seq) = IF count < Cardinality(OnSaleBooks) THEN count ELSE Cardinality(OnSaleBooks)
    /\ Range(seq) \subseteq OnSaleBooks
    /\ NoRepeat(seq)
    /\ \A i, j \in DOMAIN seq : i < j => ~RanksAbove(seq[j], seq[i])
    /\ \A b \in OnSaleBooks \ Range(seq) : \A i \in DOMAIN seq : ~RanksAbove(b, seq[i])

\* C19: for a user with no school, no completed order, no review and no
\* similar buyer the list returned is the first min(limit, number of books on
\* sale) entries of the ranking by completed orders, then views, without a
\* repeated id; a request for a user id that is not in users ends with
\* NotFound before any stage has run, and only such a request does.
C19_ColdStartIsTrending ==
    /\ (rc.pc = "done" /\ rc.result = "ok" /\ NoHistory(rc.user_id))
       => IsTopOfRanking(rc.recommendations, rc.limit)
    /\ rc.pc # "idle"
       => /\ rc.user_id \notin DOMAIN users <=> rc.result = "NotFound"
          /\ rc.user_id \notin DOMAIN users
             => rc.pc = "done" /\ rc.final = << >> /\ rc.recommendations = << >>

\* C19 witness: book 3 has one completed order and 1 view, books 1 and 2 have
\* no order and 5 views; user 7 without history asked for two and got book 3
\* and then book 1.
C19_Witness ==
    /\ rc.pc = "done" /\ rc.result = "ok" /\ rc.user_id = 7 /\ rc.limit = 2
    /\ NoHistory(7)
    /\ \A b \in DOMAIN book : Online(b)
    /\ orders = {CompletedOrder(4, 8, 3)}
    /\ rc.recommendations = <<3, 1>>

\* C19 witness: the request of user 5, who is not in users, has ended with
\* NotFound.
C19_WitnessNotFound == rc.pc = "done" /\ rc.user_id = 5 /\ rc.result = "NotFound"

(***************************************************************************)
(* SpecAudit: two audit_target handlers on one book and one post, each     *)
(* pending or already audited.                                             *)
(***************************************************************************)
\* a book as the audit reads and writes it
AuditedBook(status) ==
    [seller_ID |-> 1, price |-> 20, stock |-> 2, status |-> status, view |-> 0,
     category_id |-> 1, update_time |-> 0, audit_note |-> None]

\* a post as the audit reads and writes it
AuditedPost(status) == [status |-> status, update_time |-> 0, audit_note |-> None]

\* user 9 is an admin, user 1 is not
AuditUsers ==
    [u \in {1, 9} |-> UserRow(None, IF u = 9 THEN "admin" ELSE "user", DefaultRating, 0)]

\* the result and the note of the requests
AuditResults == {<<"pass", None>>, <<"reject", Some(1)>>}

\* the requests: target 2 does not exist
AuditRequests ==
    {AuditRequest(t, id, res[1], res[2], admin) :
        t \in {"product", "post"}, id \in {1, 2}, res \in AuditResults, admin \in {9, 1}}

InitAudit ==
    /\ book \in {<<AuditedBook(s)>> : s \in {PendingAudit, "online"}}
    /\ orders = {}
    /\ nextOrderId = 1
    /\ clock = 0
    /\ co = << >>
    /\ uo = << >>
    /\ reviews = << >>
    /\ users = AuditUsers
    /\ cr = << >>
    /\ pg = IdlePage
    /\ rc = IdleRec
    /\ posts \in {<<AuditedPost(s)>> : s \in {PendingAudit, "visible"}}
    /\ audit_logs = << >>
    /\ au = [a \in {"a1", "a2"} |-> IdleAudit]
    /\ InitAccounts

NextAudit ==
    \/ \E a \in DOMAIN au, req \in AuditRequests : AuditAdmin(a, req)
    \/ \E a \in DOMAIN au : AuditTarget(a)
    \/ \E a \in DOMAIN au : AuditUpdate(a)
    \/ \E a \in DOMAIN au : AuditLog(a)

SpecAudit == InitAudit /\ [][NextAudit]_vars

\* the step is a statement of the request of a
AuditStep(a) == au'[a] # au[a]

\* neither a target nor the audit log changes in the step
AuditKeeps == book' = book /\ posts' = posts /\ audit_logs' = audit_logs

\* the request of a has failed in this step with the given error
AuditFails(a, error) == au'[a].pc = "done" /\ au'[a].result = error /\ AuditKeeps

\* the status a passed or rejected target of the type gets
AuditedStatus(audit_type, audit_result) ==
    IF audit_result = "pass"
    THEN (IF audit_type = "product" THEN "online" ELSE "visible")
    ELSE (IF audit_type = "product" THEN "rejected" ELSE "hidden")

\* the target of the request exists and is pending
TargetPending(req) ==
    IF req.audit_type = "product"
    THEN req.target_id \in DOMAIN book /\ book[req.target_id].status = "pending_audit"
    ELSE req.target_id \in DOMAIN posts /\ posts[req.target_id].status = "pending_audit"

\* the status of the target of the request after the step
TargetStatusAfter(req) ==
    IF req.audit_type = "product" THEN book'[req.target_id].status
    ELSE posts'[req.target_id].status

NotedResults ==
    {<<"pass", None>>, <<"reject", None>>, <<"reject", Some(0)>>, <<"reject", Some(1)>>,
     <<"pass", Some(NoteLimit + 1)>>}

NoteRequests == {AuditRequest("product", 1, res[1], res[2], 9) : res \in NotedResults}

InitNote ==
    /\ book = <<AuditedBook(PendingAudit)>>
    /\ orders = {}
    /\ nextOrderId = 1
    /\ clock = 0
    /\ co = << >>
    /\ uo = << >>
    /\ reviews = << >>
    /\ users = AuditUsers
    /\ cr = << >>
    /\ pg = IdlePage
    /\ rc = IdleRec
    /\ posts = <<AuditedPost(PendingAudit)>>
    /\ audit_logs = << >>
    /\ au = [a \in {"a1", "a2"} |-> IdleAudit]
    /\ InitAccounts

NextNote ==
    \/ \E a \in DOMAIN au, req \in NoteRequests : AuditAdmin(a, req)
    \/ \E a \in DOMAIN au : AuditTarget(a)
    \/ \E a \in DOMAIN au : AuditUpdate(a)
    \/ \E a \in DOMAIN au : AuditLog(a)

SpecNote == InitNote /\ [][NextNote]_vars

\* the note is absent or empty
NoNote(note) == note = None \/ note = Some(0)

\* C21: a request to reject without a note, or with an empty note, ends with
\* InvalidRequest in its first step and changes neither a target nor the
\* audit log, and no target has the reject status with an absent or empty
\* note stored.
C21_RejectNeedsNote ==
    [][/\ \A a \in DOMAIN au :
            (au[a].pc \in {"idle", "done"} /\ AuditStep(a)
             /\ au'[a].req.audit_result = "reject" /\ NoNote(au'[a].req.audit_note))
            => AuditFails(a, "InvalidRequest")
       /\ \A b \in DOMAIN book' :
            book'[b].status = "rejected" => ~NoNote(book'[b].audit_note)
       /\ \A t \in DOMAIN posts' :
            posts'[t].status = "hidden" => ~NoNote(posts'[t].audit_note)
      ]_vars

(***************************************************************************)
(* SpecRegister: two register handlers, each of either module.             *)
(***************************************************************************)
\* the requests: two phones and two emails
RegisterRequests ==
    {RegisterRequest(via, phone, email, 1, None) :
        via \in {"auth", "users"}, phone \in {1, 2}, email \in {1, 2}}

InitRegister ==
    /\ book = << >>
    /\ orders = {}
    /\ nextOrderId = 1
    /\ clock = 0
    /\ co = << >>
    /\ uo = << >>
    /\ reviews = << >>
    /\ users = << >>
    /\ cr = << >>
    /\ pg = IdlePage
    /\ rc = IdleRec
    /\ posts = << >>
    /\ audit_logs = << >>
    /\ au = << >>
    /\ logindata = << >>
    /\ rg = [g \in {"g1", "g2"} |-> IdleRegister]

NextRegister ==
    \/ \E g \in DOMAIN rg, req \in RegisterRequests : RegisterPhone(g, req)
    \/ \E g \in DOMAIN rg : RegisterEmail(g)
    \/ \E g \in DOMAIN rg : RegisterInsert(g)
    \/ \E g \in DOMAIN rg : RegisterId(g)
    \/ \E g \in DOMAIN rg : RegisterProfile(g)

SpecRegister == InitRegister /\ [][NextRegister]_vars

\* the step is a statement of the request of g
RegisterStep(g) == rg'[g] # rg[g]

\* C22: no two accounts have the same phone and no two the same email, and
\* a register request whose phone or email is registered ends with a 400
\* response and adds neither an account nor a profile.
C22_UniquePhoneAndEmail ==
    [][/\ \A i, j \in DOMAIN logindata' :
            i # j => /\ logindata'[i].phone # logindata'[j].phone
                     /\ logindata'[i].email # logindata'[j].email
       /\ \A g \in DOMAIN rg :
            (RegisterStep(g)
             /\ \/ rg[g].pc \in {"idle", "done"}
                   /\ \E i \in DOMAIN logindata : logindata[i].phone = rg'[g].req.phone
                \/ rg[g].pc = "email"
                   /\ \E i \in DOMAIN logindata : logindata[i].email = rg[g].req.email)
            => /\ rg'[g].pc = "done"
               /\ rg'[g].result \in {"PhoneRegistered", "EmailRegistered"}
               /\ logindata' = logindata /\ users' = users
      ]_vars

\* C24: when a register request of either module succeeds, the user id it
\* returns is the id of the account it has inserted, the row of logindata
\* with its phone and email, and users has the row of that id.
C24_ProfileOfNewAccount ==
    [][\A g \in DOMAIN rg :
          (RegisterStep(g) /\ rg'[g].pc = "done" /\ rg'[g].result = "ok")
          => /\ rg'[g].user_id \in DOMAIN logindata
             /\ logindata[rg'[g].user_id].phone = rg'[g].req.phone
             /\ logindata[rg'[g].user_id].email = rg'[g].req.email
             /\ rg'[g].user_id \in DOMAIN users'
             /\ rg'[g].user_id \notin DOMAIN users
      ]_vars

(***************************************************************************)
(* SpecOwner: the two update endpoints on a book of seller 1 and a book of *)
(* user 7.                                                                 *)
(***************************************************************************)
\* the seller ids the requests claim: the two sellers and user 5
ClaimedSellers == {1, 7} \cup Unregistered

\* the fields of the update requests
OwnerPatches == StockPatches \cup PricePatches

InitOwner == InitStore({}, {}, <<BookOnSale(1), BookRow(7, 20, 1, OnSale)>>, {})

NextOwner ==
    \/ \E b \in DOMAIN book, pa \in OwnerPatches : update_book(b, pa.price, pa.stock, pa.status)
    \/ \E b \in DOMAIN book, sid \in ClaimedSellers, pa \in OwnerPatches :
          update_product(b, sid, pa.price, pa.stock, pa.status)

SpecOwner == InitOwner /\ [][NextOwner]_vars

\* C23: no request to an update endpoint changes a book unless it claims the
\* seller id of the book: a request to PUT /books/{book_id}, which claims no
\* seller id, changes no book, and a request to PUT /products/{book_id} that
\* claims another seller id changes no book.
C23_OnlySellerMutates ==
    \A b \in DOMAIN book, pa \in OwnerPatches :
       /\ ~ENABLED (update_book(b, pa.price, pa.stock, pa.status) /\ book'[b] # book[b])
       /\ \A sid \in ClaimedSellers \ {book[b].seller_ID} :
             ~ENABLED (update_product(b, sid, pa.price, pa.stock, pa.status)
                       /\ book'[b] # book[b])

\* the requests to PUT /products/{book_id} change a book only for its seller
ProductsOnlySeller ==
    \A b \in DOMAIN book, pa \in OwnerPatches :
       \A sid \in ClaimedSellers \ {book[b].seller_ID} :
          ~ENABLED (update_product(b, sid, pa.price, pa.stock, pa.status)
                    /\ book'[b] # book[b])

(***************************************************************************)
(* SpecShape: the create_order requests of buyer 7 for a book with two     *)
(* copies, with every kind of fulfillment part and quantities around 0,    *)
(* while the seller may set the stock to 0.                                *)
(***************************************************************************)
\* a logistics request with the three receiver fields
LogisticsOk == [fulfillment_type |-> "logistics", pickup_location_id |-> None,
                receiver_name |-> Some("Li"), receiver_phone |-> Some("138"),
                receiver_address |-> Some("Dorm 3")]

\* fulfillment_type is a str: a request with another type and no other field
OtherType == [fulfillment_type |-> "express", pickup_location_id |-> None,
              receiver_name |-> None, receiver_phone |-> None, receiver_address |-> None]

ShapeFulfillments == Fulfillments \cup {LogisticsOk, OtherType}

\* quantity is an int without bounds
ShapeQuantities == {0 - 1, 0, 1}

InitShape == InitStore({"c1"}, {}, <<BookOnSale(2)>>, {})

NextShape ==
    \/ \E p \in DOMAIN co, q \in ShapeQuantities, f \in ShapeFulfillments :
          CreateOrderRead(p, CreateRequest(1, 7, q, f))
    \/ \E p \in DOMAIN co : CreateOrderInsert(p)
    \/ \E p \in DOMAIN co : CreateOrderDecrement(p)
    \/ \E p \in DOMAIN co : CreateOrderDelete(p)
    \/ \E p \in DOMAIN co : CreateOrderReturn(p)
    \/ update_product(1, 1, None, Some(0), None)

SpecShape == InitShape /\ [][NextShape]_vars

\* the text field is given and not empty
Given(field) == field # None /\ field[1] # ""

\* the fulfillment type is one of the two, with the fields of the type
WellShaped(o) ==
    \/ o.fulfillment_type = "self_pickup" /\ o.pickup_location_id # None
    \/ /\ o.fulfillment_type = "logistics"
       /\ Given(o.receiver_name) /\ Given(o.receiver_phone) /\ Given(o.receiver_address)

\* C25: every order row has the fulfillment type self_pickup with a pickup
\* location id, or logistics with receiver name, phone and address; a request
\* without these ends with InvalidRequest (or an earlier error) in its first
\* step and no row is inserted for it.
C25_FulfillmentShape ==
    [][/\ \A o \in orders' : WellShaped(o)
       /\ \A p \in DOMAIN co :
            (co[p].pc \in {"idle", "done"} /\ co'[p] # co[p])
            => co'[p].pc = "done" \/ WellShaped(co'[p].req)
      ]_vars

\* C28: every order row has quantity >= 1 and total_amount >= 0, and no step
\* of a create_order request increases the stock of a book.
C28_PositiveQuantity ==
    [][/\ \A o \in orders' : o.quantity >= 1 /\ o.total_amount >= 0
       /\ co' # co => \A b \in DOMAIN book : book'[b].stock <= book[b].stock
      ]_vars

InitialStock == BookOnSale(1).stock

\* C27: when no create_order request is in progress, the stock of every book
\* plus the quantities of its order rows is the stock the book started with.
C27_StockConserved ==
    (\A p \in DOMAIN co : co[p].pc \in {"idle", "done"})
    => \A b \in DOMAIN book :
          book[b].stock + SumQuantities({o \in orders : o.product_id = b}) = InitialStock

\* C29: update_order_status writes nothing but the order row of the request,
\* and of that row only status, update_time and, for pending_receive, the
\* tracking number; the stock of the book stays as it is, also when the order
\* is cancelled.
C29_OnlyOrderRowChanges ==
    [][\A u \in DOMAIN uo :
          uo'[u] # uo[u]
          => /\ book' = book
             /\ co' = co
             /\ uo[u].pc # "write" => orders' = orders
             /\ uo[u].pc = "write"
                => /\ \A o \in orders : o.order_id # uo[u].order_id => o \in orders'
                   /\ \A o2 \in orders' :
                        \E o \in orders :
                           /\ o2 = [o EXCEPT !.status = o2.status,
                                             !.update_time = o2.update_time,
                                             !.logistics_no = o2.logistics_no]
                           /\ o2 # o => (o.order_id = uo[u].order_id /\ o2.status = uo[u].status)
                           /\ o2.logistics_no # o.logistics_no
                              => uo[u].status = "pending_receive"
      ]_vars

\* C29 witness: an order for 2 of the 3 copies has been created and then
\* cancelled by its buyer, and the stock of the book is still 1.
C29_Witness ==
    /\ book[1].stock = 1
    /\ \E o \in orders : orders = {o} /\ o.quantity = 2 /\ o.status = "cancelled"
    /\ \E u \in DOMAIN uo : uo[u].pc = "done" /\ uo[u].result = "OK" /\ uo[u].status = "cancelled"

\* the rows of the audit log of the target
LogEntries(audit_type, target_id) ==
    {i \in DOMAIN audit_logs : /\ audit_logs[i].audit_type = audit_type
                               /\ audit_logs[i].target_id = target_id}

====
